---- MODULE Spec2Model ----
(***************************************************************************)
(* Model of code/data_management.py: the books database (books.csv), the   *)
(* reading database (reading.csv), their creation (create_databases), the  *)
(* book update session (update_book_db) and the reading update session     *)
(* (update_reading_db) with its two propagation calls update_reading_count *)
(* and update_book_rating.                                                 *)
(*                                                                         *)
(* A DataFrame is a sequence of records.  A cell of a DataFrame is either  *)
(* NaN (the empty sequence) or Val(v) (a one-element sequence).  A csv     *)
(* file is a sequence of records whose text columns hold plain strings,    *)
(* the empty string being the empty cell.  Numbers and dates keep the      *)
(* NaN / Val(v) form in a file.  Ratings of books.csv are held in tenths   *)
(* (Val(13) is 1.3).  Row labels are 0-based as in pandas; sequences are   *)
(* 1-based, so label i is element i + 1.                                   *)
(***************************************************************************)
EXTENDS Integers, Sequences, FiniteSets, TLC

-----------------------------------------------------------------------------
(* Bounds of the model *)

\* Number of update sessions started in one behaviour.
MaxSessions == 3

\* Number of book update sessions in a behaviour of book sessions alone.
MaxBookSessions == 4

\* Dates are the days 1 .. MaxDay: the prompts are answered with day 1, with
\* day MaxDay or with nothing.
MaxDay == 2

\* Ratings are 1 .. MaxRating: the prompts are answered with 1, with MaxRating
\* or with nothing.
MaxRating == 2

-----------------------------------------------------------------------------
(* Cells *)

NaN == <<>>

Val(v) == <<v>>

\* pd.isnull / pd.isna / Series.notna negated
isnull(x) == x = NaN

\* Titles typed at the title prompt.  They are non-empty and none of them is
\* a text read_csv takes for a missing value.
Titles == {"A", "B"}

\* Every text that is compared by a sort, in the order of Python's str
\* comparison.
Lexicon == <<"", "A", "B", "K", "L">>

Rank(s) == CHOOSE i \in 1..Len(Lexicon) : Lexicon[i] = s

\* Order of two cells of a sort key, missing values last (na_position='last'):
\* -1 when x sorts before y, 0 when the keys are equal, 1 otherwise.
CmpText(x, y) ==
    IF x = y THEN 0
    ELSE IF isnull(x) THEN 1
    ELSE IF isnull(y) THEN -1
    ELSE IF Rank(x[1]) < Rank(y[1]) THEN -1 ELSE 1

CmpNum(x, y) ==
    IF x = y THEN 0
    ELSE IF isnull(x) THEN 1
    ELSE IF isnull(y) THEN -1
    ELSE IF x[1] < y[1] THEN -1 ELSE 1

-----------------------------------------------------------------------------
(* csv files *)

\* to_csv of a text cell: a missing value and the empty string are both
\* written as the empty cell.
Text(x) == IF isnull(x) THEN "" ELSE x[1]

\* read_csv of a text cell: the empty cell is read as NaN.
Cell(s) == IF s = "" THEN NaN ELSE Val(s)

books_to_csv(db) ==
    [i \in 1..Len(db) |->
        [Title |-> Text(db[i].Title), Author |-> Text(db[i].Author),
         AuthorFN |-> Text(db[i].AuthorFN), AuthorMN |-> Text(db[i].AuthorMN),
         AuthorLN |-> Text(db[i].AuthorLN), Length |-> db[i].Length,
         TimesRead |-> db[i].TimesRead, Rating |-> db[i].Rating,
         Genre |-> Text(db[i].Genre)]]

books_read_csv(file) ==
    [i \in 1..Len(file) |->
        [Title |-> Cell(file[i].Title), Author |-> Cell(file[i].Author),
         AuthorFN |-> Cell(file[i].AuthorFN), AuthorMN |-> Cell(file[i].AuthorMN),
         AuthorLN |-> Cell(file[i].AuthorLN), Length |-> file[i].Length,
         TimesRead |-> file[i].TimesRead, Rating |-> file[i].Rating,
         Genre |-> Cell(file[i].Genre)]]

reading_to_csv(db) ==
    [i \in 1..Len(db) |->
        [Title |-> Text(db[i].Title), Start |-> db[i].Start,
         Finish |-> db[i].Finish, ReadingTime |-> db[i].ReadingTime,
         Rating |-> db[i].Rating]]

\* read_csv followed by the two pd.to_datetime(...).dt.date conversions
reading_read_csv(file) ==
    [i \in 1..Len(file) |->
        [Title |-> Cell(file[i].Title), Start |-> file[i].Start,
         Finish |-> file[i].Finish, ReadingTime |-> file[i].ReadingTime,
         Rating |-> file[i].Rating]]

\* db['Title'].values
TitleValues(db) == {db[i].Title : i \in 1..Len(db)}

\* The rows of db that a boolean filter keeps, in order.
RECURSIVE SelectRows(_, _)
SelectRows(db, keep) ==
    IF db = <<>> THEN <<>>
    ELSE LET rest == SelectRows(Tail(db), [i \in 1..Len(db) - 1 |-> keep[i + 1]])
         IN  IF keep[1] THEN <<Head(db)>> \o rest ELSE rest

-----------------------------------------------------------------------------
(* Database creation *)

\* The table create_books_db writes: the header and no row.
create_books_db == <<>>

\* The table create_reading_db writes: the header and no row.
create_reading_db == <<>>

\* create_databases taking the decision for reading.csv from the check of
\* books.csv.
create_databases_one_check(force_overwrite, exists, books, reading) ==
    [books |-> IF exists.books /\ ~force_overwrite THEN books ELSE create_books_db,
     reading |-> IF exists.books /\ ~force_overwrite THEN reading
                 ELSE create_reading_db,
     printed |-> << IF exists.books /\ ~force_overwrite
                    THEN "Book database already created."
                    ELSE IF exists.books
                         THEN "Overwriting existing books database..."
                         ELSE "Creating book database...",
                    IF exists.books /\ ~force_overwrite
                    THEN "Reading event database already created."
                    ELSE IF exists.books
                         THEN "Overwriting reading database..."
                         ELSE "Creating reading database..." >>]

\* create_databases: the content of the two files after the call and the two
\* messages it prints.  exists holds the two os.path.isfile results, books
\* and reading the content of the files that exist.
create_databases(force_overwrite, exists, books, reading) ==
    [books |-> IF exists.books /\ ~force_overwrite THEN books ELSE create_books_db,
     reading |-> IF exists.reading /\ ~force_overwrite THEN reading
                 ELSE create_reading_db,
     printed |-> << IF exists.books /\ ~force_overwrite
                    THEN "Book database already created."
                    ELSE IF exists.books
                         THEN "Overwriting existing books database..."
                         ELSE "Creating book database...",
                    IF exists.reading /\ ~force_overwrite
                    THEN "Reading event database already created."
                    ELSE IF exists.reading
                         THEN "Overwriting reading database..."
                         ELSE "Creating reading database..." >>]

-----------------------------------------------------------------------------
(* Book database *)

\* ' '.join of the name parts; the parts must be strings.
generate_full_author(author_fn, author_mn, author_ln) ==
    IF author_mn = ""
    THEN author_fn \o " " \o author_ln
    ELSE author_fn \o " " \o author_mn \o " " \o author_ln

\* What the user types at the six prompts of add_new_book.  The texts of
\* Length and Rating are held as numbers, the empty answer as NaN.
EmptyAnswers ==
    [fn |-> "", mn |-> "", ln |-> "", length |-> NaN, rating |-> NaN, genre |-> ""]

FullAnswers ==
    [fn |-> "F", mn |-> "M", ln |-> "K", length |-> Val(7), rating |-> Val(30),
     genre |-> "G"]

BookInputs ==
    { EmptyAnswers, FullAnswers,
      [fn |-> "F", mn |-> "", ln |-> "L", length |-> NaN, rating |-> NaN, genre |-> ""] }

\* NewBook with the prompts left out: a record that holds the title alone.
NewBookBlank(book_title, inp) ==
    [Title |-> Val(book_title), Author |-> NaN, AuthorFN |-> NaN, AuthorMN |-> NaN,
     AuthorLN |-> NaN, Length |-> NaN, TimesRead |-> NaN, Rating |-> NaN,
     Genre |-> NaN]

\* The dictionary new_book: it has no 'Times Read' key, so the appended row
\* holds NaN there.
NewBook(book_title, inp) ==
    [Title |-> Val(book_title),
     Author |-> Val(generate_full_author(inp.fn, inp.mn, inp.ln)),
     AuthorFN |-> Val(inp.fn), AuthorMN |-> Val(inp.mn), AuthorLN |-> Val(inp.ln),
     Length |-> inp.length, TimesRead |-> NaN, Rating |-> inp.rating,
     Genre |-> Val(inp.genre)]

add_new_book(books_db, book_title, inp) == Append(books_db, NewBook(book_title, inp))

\* prop_dict of edit_existing_book, by the column each number names.
book_prop_dict ==
    <<"Title", "AuthorFN", "AuthorMN", "AuthorLN", "Length", "Rating", "Genre">>

\* What the user types for the new value of a property: a text for the text
\* columns, a number (or NaN for a text that is no number) for Length and
\* Rating.
BookNewValues(prop) ==
    CASE prop = "Title" -> {Val(t) : t \in Titles}
      [] prop = "AuthorFN" -> {Val("F")}
      [] prop = "AuthorMN" -> {Val("M")}
      [] prop = "AuthorLN" -> {Val("K")}
      [] prop = "Length" -> {NaN, Val(7)}
      [] prop = "Rating" -> {Val(40)}
      [] OTHER -> {Val("G")}

\* The result of a function that may raise: err is "" and db the returned
\* DataFrame, or err names the exception.
Ok(db) == [err |-> "", db |-> db]

Raise(e) == [err |-> e, db |-> <<>>]

\* SetWhereTitle without the filter on the title: every row is set.
SetEveryRow(books_db, book_title, prop, value) ==
    [i \in 1..Len(books_db) |-> [books_db[i] EXCEPT ![prop] = value]]

\* books_db.loc[books_db['Title'] == book_title, prop] = value
SetWhereTitle(books_db, book_title, prop, value) ==
    [i \in 1..Len(books_db) |->
        IF books_db[i].Title = Val(book_title)
        THEN [books_db[i] EXCEPT ![prop] = value]
        ELSE books_db[i]]

\* books_db.loc[books_db['Title'] == book_title, prop].values[0]
FirstWhereTitle(books_db, book_title, prop) ==
    LET i == CHOOSE k \in 1..Len(books_db) :
                 /\ books_db[k].Title = Val(book_title)
                 /\ \A j \in 1..(k - 1) : books_db[j].Title # Val(book_title)
    IN  books_db[i][prop]

edit_existing_book(books_db, book_title, prop, new_value) ==
    IF prop \in {"Length", "Rating"} /\ isnull(new_value)
    THEN Raise("ValueError")
    ELSE LET db1 == SetWhereTitle(books_db, book_title, prop, new_value)
         IN  IF prop \in {"AuthorFN", "AuthorMN", "AuthorLN"}
             THEN LET author_fn == FirstWhereTitle(db1, book_title, "AuthorFN")
                      mn == FirstWhereTitle(db1, book_title, "AuthorMN")
                      author_mn == IF isnull(mn) THEN Val("") ELSE mn
                      author_ln == FirstWhereTitle(db1, book_title, "AuthorLN")
                  IN  IF isnull(author_fn) \/ isnull(author_ln)
                      THEN Raise("TypeError")
                      ELSE Ok(SetWhereTitle(db1, book_title, "Author",
                                Val(generate_full_author(author_fn[1], author_mn[1],
                                                         author_ln[1]))))
             ELSE Ok(db1)

\* books_db.drop(books_db[books_db['Title'] == book_title].index)
remove_existing_book(books_db, book_title) ==
    SelectRows(books_db, [i \in 1..Len(books_db) |-> books_db[i].Title # Val(book_title)])

\* A row sorts before another by (Author LN, Title), missing values last.
BookBefore(a, b) ==
    \/ CmpText(a.AuthorLN, b.AuthorLN) = -1
    \/ /\ CmpText(a.AuthorLN, b.AuthorLN) = 0
       /\ CmpText(a.Title, b.Title) = -1

RECURSIVE InsertBook(_, _)
InsertBook(r, s) ==
    IF s = <<>> THEN <<r>>
    ELSE IF BookBefore(r, s[Len(s)])
         THEN Append(InsertBook(r, SubSeq(s, 1, Len(s) - 1)), s[Len(s)])
         ELSE Append(s, r)

\* books_db.sort_values(by=['Author LN', 'Title'], ignore_index=True): a
\* stable sort.
RECURSIVE sort_books(_)
sort_books(db) ==
    IF db = <<>> THEN <<>>
    ELSE InsertBook(db[Len(db)], sort_books(SubSeq(db, 1, Len(db) - 1)))

\* The branches of update_book_db between the prompts and the sort.
book_branch(books_db, update_mode, book_title, switch_mode, inp, prop, new_value) ==
    IF update_mode = 1
    THEN IF Val(book_title) \in TitleValues(books_db)
         THEN IF switch_mode = 1
              THEN edit_existing_book(books_db, book_title, prop, new_value)
              ELSE Ok(add_new_book(remove_existing_book(books_db, book_title),
                                   book_title, inp))
         ELSE Ok(add_new_book(books_db, book_title, inp))
    ELSE IF update_mode = 2
         THEN edit_existing_book(books_db, book_title, prop, new_value)
         ELSE Ok(remove_existing_book(books_db, book_title))

-----------------------------------------------------------------------------
(* Reading database *)

\* update_reading_time counting the days between the dates, the last one
\* excluded.
update_reading_time_exclusive(start, finish) ==
    IF isnull(start) \/ isnull(finish)
    THEN NaN
    ELSE Val(finish[1] - start[1])

update_reading_time(start, finish) ==
    IF isnull(start) \/ isnull(finish)
    THEN NaN
    ELSE Val((finish[1] - start[1]) + 1)

add_reading_entry(reading_db, book_title, start_date, finish_date, rating) ==
    Append(reading_db,
           [Title |-> Val(book_title), Start |-> start_date, Finish |-> finish_date,
            ReadingTime |-> update_reading_time(start_date, finish_date),
            Rating |-> rating])

\* What the user types at the three prompts of add_reading_entry, after the
\* formatting of lines 392-395 (an empty text is NaT for a date and NaN for
\* the rating).
EntryInputs ==
    { [start |-> NaN, finish |-> NaN, rating |-> NaN],
      [start |-> Val(1), finish |-> Val(1), rating |-> Val(1)],
      [start |-> Val(1), finish |-> Val(MaxDay), rating |-> Val(MaxRating)],
      [start |-> Val(MaxDay), finish |-> Val(1), rating |-> NaN] }

\* prop_dict of edit_reading_entry
reading_prop_dict == <<"Title", "Start", "Finish", "Rating">>

\* What the user types for the new value of a property, after the formatting
\* of lines 451-454 (an empty text is NaT for a date and NaN for a rating).
ReadingNewValues(prop) ==
    CASE prop = "Title" -> {Val(t) : t \in Titles}
      [] prop = "Rating" -> {NaN, Val(MaxRating)}
      [] OTHER -> {NaN, Val(MaxDay)}

\* A row that .loc creates for a label that is not in the index: every
\* column is missing.
EmptyRow ==
    [Title |-> NaN, Start |-> NaN, Finish |-> NaN, ReadingTime |-> NaN, Rating |-> NaN]

\* The row labels of a freshly loaded DataFrame: 0 .. n-1.
Labels(db) == 0..(Len(db) - 1)

\* reading_db.loc[index_to_edit, prop_to_update] = new_value: sets the cell of
\* an existing row and, for a label that is not in the index, appends a row
\* with that label.
loc_set(reading_db, index, prop, value) ==
    IF index \in Labels(reading_db)
    THEN [reading_db EXCEPT ![index + 1][prop] = value]
    ELSE Append(reading_db, [EmptyRow EXCEPT ![prop] = value])

\* The position of the row with label index after loc_set.
RowOf(reading_db, index) ==
    IF index \in Labels(reading_db) THEN index + 1 ELSE Len(reading_db) + 1

edit_reading_entry(reading_db, index_to_edit, prop_to_update, new_value) ==
    LET db1 == loc_set(reading_db, index_to_edit, prop_to_update, new_value)
        i == RowOf(reading_db, index_to_edit)
        new_time == update_reading_time(db1[i].Start, db1[i].Finish)
    IN  Ok([db1 EXCEPT ![i].ReadingTime = new_time])

\* remove_reading_entry with drop(..., errors='ignore'): a label that is not
\* in the index is passed over.
remove_reading_entry_ignore(reading_db, index_to_remove) ==
    [err |-> "",
     db |-> SelectRows(reading_db,
                       [i \in 1..Len(reading_db) |-> i # index_to_remove + 1])]

\* reading_db.drop(index_to_remove): KeyError for a label not in the index.
remove_reading_entry(reading_db, index_to_remove) ==
    IF index_to_remove \in Labels(reading_db)
    THEN Ok(SelectRows(reading_db,
                       [i \in 1..Len(reading_db) |-> i # index_to_remove + 1]))
    ELSE Raise("KeyError")

\* ReadingBefore with Finish as the only sort key.
ReadingBeforeByFinish(a, b) == CmpNum(a.Finish, b.Finish) = -1

\* A row sorts before another by (Finish, Start), missing values last.
ReadingBefore(a, b) ==
    \/ CmpNum(a.Finish, b.Finish) = -1
    \/ /\ CmpNum(a.Finish, b.Finish) = 0
       /\ CmpNum(a.Start, b.Start) = -1

RECURSIVE InsertReading(_, _)
InsertReading(r, s) ==
    IF s = <<>> THEN <<r>>
    ELSE IF ReadingBefore(r, s[Len(s)])
         THEN Append(InsertReading(r, SubSeq(s, 1, Len(s) - 1)), s[Len(s)])
         ELSE Append(s, r)

\* reading_db.sort_values(['Finish', 'Start'], na_position='last')
RECURSIVE sort_reading(_)
sort_reading(db) ==
    IF db = <<>> THEN <<>>
    ELSE InsertReading(db[Len(db)], sort_reading(SubSeq(db, 1, Len(db) - 1)))

-----------------------------------------------------------------------------
(* Propagation from the reading database to books.csv *)

\* reading_db.loc[title_filter & finish_filter].shape[0]
read_cnt(reading_db, book_title) ==
    Cardinality({i \in 1..Len(reading_db) :
                    /\ reading_db[i].Title = Val(book_title)
                    /\ ~isnull(reading_db[i].Finish)})

\* The rows of the title that hold a rating: Series.mean skips NaN.
RatedRows(reading_db, book_title) ==
    {i \in 1..Len(reading_db) :
        /\ reading_db[i].Title = Val(book_title)
        /\ ~isnull(reading_db[i].Rating)}

RECURSIVE SumRatings(_, _)
SumRatings(reading_db, rows) ==
    IF rows = {} THEN 0
    ELSE LET i == CHOOSE k \in rows : TRUE
         IN  reading_db[i].Rating[1] + SumRatings(reading_db, rows \ {i})

\* round(total / n, 1) in tenths.  The mean of n integers is a tie between
\* two tenths only when it is an exact binary fraction for the n the model
\* reaches, and round() then takes the even tenth.
round1(total, n) ==
    LET q == (10 * total) \div n
        r == (10 * total) % n
    IN  IF 2 * r < n THEN q
        ELSE IF 2 * r > n THEN q + 1
        ELSE IF q % 2 = 0 THEN q ELSE q + 1

\* avg_rating of update_book_rating: NaN when no row of the title is rated.
avg_rating(reading_db, book_title) ==
    LET rows == RatedRows(reading_db, book_title)
    IN  IF rows = {} THEN NaN
        ELSE Val(round1(SumRatings(reading_db, rows), Cardinality(rows)))

\* update_reading_count: the new content of books.csv.  inp is what the user
\* types when the title is not found and add_new_book prompts.
update_reading_count(reading_db, file, book_title, inp) ==
    LET books_db == books_read_csv(file)
        cnt == Val(read_cnt(reading_db, book_title))
    IN  IF Val(book_title) \in TitleValues(books_db)
        THEN books_to_csv(SetWhereTitle(books_db, book_title, "TimesRead", cnt))
        ELSE books_to_csv(SetWhereTitle(add_new_book(books_db, book_title, inp),
                                        book_title, "TimesRead", cnt))

\* update_book_rating writing the rating only when an average exists, as the
\* comment of line 359 has it: the rating books.csv holds is kept otherwise.
update_book_rating_if_rated(reading_db, file, book_title, inp) ==
    LET books_db == books_read_csv(file)
        avg == avg_rating(reading_db, book_title)
        found == IF Val(book_title) \in TitleValues(books_db)
                 THEN books_db
                 ELSE add_new_book(books_db, book_title, inp)
    IN  IF isnull(avg)
        THEN books_to_csv(found)
        ELSE books_to_csv(SetWhereTitle(found, book_title, "Rating", avg))

\* update_book_rating: the new content of books.csv.
update_book_rating(reading_db, file, book_title, inp) ==
    LET books_db == books_read_csv(file)
        avg == avg_rating(reading_db, book_title)
    IN  IF Val(book_title) \in TitleValues(books_db)
        THEN books_to_csv(SetWhereTitle(books_db, book_title, "Rating", avg))
        ELSE books_to_csv(SetWhereTitle(add_new_book(books_db, book_title, inp),
                                        book_title, "Rating", avg))

\* sync_calls with update_book_rating left out of the branch of line 515.
sync_calls_skip_rating(b) ==
    IF b = "switch_to_edit"
    THEN <<"update_reading_count">>
    ELSE <<"update_reading_count", "update_book_rating">>

\* The calls each branch of update_reading_db makes after its mutation.
sync_calls(b) ==
    CASE b = "add" -> <<"update_reading_count", "update_book_rating">>
      [] b = "switch_to_edit" -> <<"update_reading_count", "update_book_rating">>
      [] b = "edit" -> <<"update_reading_count", "update_book_rating">>
      [] OTHER -> <<"update_reading_count", "update_book_rating">>

-----------------------------------------------------------------------------
(* State *)

VARIABLES
    isfile,        \* os.path.isfile of books.csv and of reading.csv
    booksFile,     \* the content of books.csv, <<>> when there is no file
    readingFile,   \* the content of reading.csv, <<>> when there is no file
    session,       \* the update session last started: "", "books" or "reading"
    pc,            \* where that session is
    reading_db,    \* update_reading_db: the DataFrame in memory
    update_mode,   \* update_reading_db: the mode typed, 0 outside a session
    book_title,    \* update_reading_db: the title typed, "" before the prompt
    calls,         \* update_reading_db: the propagation calls still to make
    index,         \* the row label typed in edit/remove_reading_entry, else NaN
    answers,       \* what was typed at the prompts of add_new_book, else NaN
    steps,         \* the steps the session has gone through, in order
    err,           \* the exception that ended the session, "" when none
    sessions,      \* number of sessions started
    booksAtStart   \* the content of books.csv when the session started

vars ==
    <<isfile, booksFile, readingFile, session, pc, reading_db, update_mode, book_title,
      calls, index, answers, steps, err, sessions, booksAtStart>>

\* No session is running.
AtRest == pc \in {"Idle", "Persisted", "Aborted"}

\* The state after create_databases on an empty data directory: two empty
\* tables.
Init ==
    /\ isfile = [books |-> TRUE, reading |-> TRUE]
    /\ booksFile = <<>>
    /\ readingFile = <<>>
    /\ session = ""
    /\ pc = "Idle"
    /\ reading_db = <<>>
    /\ update_mode = 0
    /\ book_title = ""
    /\ calls = <<>>
    /\ index = NaN
    /\ answers = NaN
    /\ steps = <<>>
    /\ err = ""
    /\ sessions = 0
    /\ booksAtStart = <<>>

-----------------------------------------------------------------------------
(* create_databases *)

\* A data directory before create_databases is run: each file is missing, or
\* holds a table that a session has written.
BookFiles ==
    {<<>>} \cup {books_to_csv(<<NewBook(t, inp)>>) : t \in Titles, inp \in BookInputs}

ReadingFiles ==
    {<<>>} \cup
    {reading_to_csv(add_reading_entry(<<>>, t, e.start, e.finish, e.rating)) :
        t \in Titles, e \in EntryInputs}

DirInit ==
    /\ isfile \in [books : BOOLEAN, reading : BOOLEAN]
    /\ booksFile \in (IF isfile.books THEN BookFiles ELSE {<<>>})
    /\ readingFile \in (IF isfile.reading THEN ReadingFiles ELSE {<<>>})
    /\ session = ""
    /\ pc = "Idle"
    /\ reading_db = <<>>
    /\ update_mode = 0
    /\ book_title = ""
    /\ calls = <<>>
    /\ index = NaN
    /\ answers = NaN
    /\ steps = <<>>
    /\ err = ""
    /\ sessions = 0
    /\ booksAtStart = <<>>

\* One run of create_databases.  steps holds the command line and the two
\* messages printed.
CreateDatabases(force_overwrite) ==
    /\ AtRest
    /\ sessions < MaxSessions
    /\ LET res == create_databases(force_overwrite, isfile, booksFile, readingFile)
       IN  /\ booksFile' = res.books
           /\ readingFile' = res.reading
           /\ steps' = <<IF force_overwrite THEN "init -f" ELSE "init">> \o res.printed
    /\ isfile' = [books |-> TRUE, reading |-> TRUE]
    /\ session' = "create"
    /\ sessions' = sessions + 1
    /\ pc' = "Idle"
    /\ err' = ""
    /\ UNCHANGED <<reading_db, update_mode, book_title, calls, index, answers,
                   booksAtStart>>

-----------------------------------------------------------------------------
(* update_book_db: one action for a whole session *)

\* An answer to a prompt that the branch taken never shows.
NotAsked == EmptyAnswers

update_book_db(mode, title, switch_mode, inp, prop, new_value) ==
    /\ AtRest
    /\ isfile.books
    /\ LET books_db == books_read_csv(booksFile)
       IN  /\ mode = 1 \/ Val(title) \in TitleValues(books_db)
           /\ LET res == book_branch(books_db, mode, title, switch_mode, inp,
                                     prop, new_value)
              IN  IF res.err = ""
                  THEN /\ booksFile' = books_to_csv(sort_books(res.db))
                       /\ pc' = "Persisted"
                       /\ err' = ""
                       /\ steps' = <<"mode", "title", "mutate", "sort", "persist">>
                  ELSE /\ booksFile' = booksFile
                       /\ pc' = "Aborted"
                       /\ err' = res.err
                       /\ steps' = <<"mode", "title">>
    /\ session' = "books"
    /\ sessions' = sessions + 1
    /\ booksAtStart' = <<>>
    /\ reading_db' = <<>>
    /\ update_mode' = 0
    /\ book_title' = ""
    /\ calls' = <<>>
    /\ index' = NaN
    /\ answers' = NaN
    /\ UNCHANGED <<isfile, readingFile>>

AddBook(title, inp) ==
    /\ Val(title) \notin TitleValues(books_read_csv(booksFile))
    /\ update_book_db(1, title, 0, inp, "Title", NaN)

AddExistingBookEdit(title, prop, new_value) ==
    /\ Val(title) \in TitleValues(books_read_csv(booksFile))
    /\ update_book_db(1, title, 1, NotAsked, prop, new_value)

AddExistingBookOverwrite(title, inp) ==
    /\ Val(title) \in TitleValues(books_read_csv(booksFile))
    /\ update_book_db(1, title, 2, inp, "Title", NaN)

EditBook(title, prop, new_value) ==
    update_book_db(2, title, 0, NotAsked, prop, new_value)

RemoveBook(title) ==
    update_book_db(3, title, 0, NotAsked, "Title", NaN)

-----------------------------------------------------------------------------
(* update_reading_db: one action for each step of a session *)

\* Lines 493-505: load reading.csv and read the mode.
SelectMode(mode) ==
    /\ AtRest
    /\ isfile.reading
    /\ sessions < MaxSessions
    /\ session' = "reading"
    /\ sessions' = sessions + 1
    /\ booksAtStart' = booksFile
    /\ reading_db' = reading_read_csv(readingFile)
    /\ update_mode' = mode
    /\ book_title' = ""
    /\ calls' = <<>>
    /\ index' = NaN
    /\ answers' = NaN
    /\ steps' = <<"mode">>
    /\ err' = ""
    /\ pc' = "ModeSelected"
    /\ UNCHANGED <<isfile, booksFile, readingFile>>

\* Line 507: prompt_for_title asks again until an edit or a remove names a
\* title of the reading database.
PromptTitle(title) ==
    /\ pc = "ModeSelected"
    /\ update_mode = 1 \/ Val(title) \in TitleValues(reading_db)
    /\ book_title' = title
    /\ steps' = Append(steps, "title")
    /\ pc' = "TitleResolved"
    /\ UNCHANGED <<isfile, booksFile, readingFile, session, reading_db, update_mode,
                   calls, index, answers, err, sessions, booksAtStart>>

\* The session goes on with the mutated DataFrame, or ends with the
\* exception the mutation raised.
Mutate(b, idx, res) ==
    /\ pc = "TitleResolved"
    /\ index' = idx
    /\ IF res.err = ""
       THEN /\ reading_db' = res.db
            /\ calls' = sync_calls(b)
            /\ steps' = Append(steps, "mutate")
            /\ pc' = "Mutated"
            /\ err' = ""
       ELSE /\ reading_db' = <<>>
            /\ calls' = <<>>
            /\ steps' = steps
            /\ pc' = "Aborted"
            /\ err' = res.err
    /\ UNCHANGED <<isfile, booksFile, readingFile, session, update_mode, book_title,
                   answers, sessions, booksAtStart>>

\* Lines 519 and 523: a new title, or an existing one and the answer not Y.
AddEntry(start_date, finish_date, rating) ==
    /\ update_mode = 1
    /\ Mutate("add", NaN,
              Ok(add_reading_entry(reading_db, book_title, start_date, finish_date,
                                   rating)))

\* Line 515: an existing title and the answer Y.  edit_reading_entry changes
\* reading_db in place, so the misspelt name its result is bound to is the
\* same DataFrame.
SwitchToEdit(idx, prop, new_value) ==
    /\ update_mode = 1
    /\ Val(book_title) \in TitleValues(reading_db)
    /\ Mutate("switch_to_edit", Val(idx),
              edit_reading_entry(reading_db, idx, prop, new_value))

\* Line 528
EditEntry(idx, prop, new_value) ==
    /\ update_mode = 2
    /\ Mutate("edit", Val(idx), edit_reading_entry(reading_db, idx, prop, new_value))

\* Line 532
RemoveEntry(idx) ==
    /\ update_mode = 3
    /\ Mutate("remove", Val(idx), remove_reading_entry(reading_db, idx))

\* The propagation calls may start once the mutation is done.
InSync == pc \in {"Mutated", "Counted", "Rated"}

\* The prompts of add_new_book are shown only when the title is not found.
PromptedInputs(title) ==
    IF Val(title) \in TitleValues(books_read_csv(booksFile))
    THEN {NotAsked}
    ELSE {EmptyAnswers, FullAnswers}

\* UpdateReadingCount counting in the reading database as reading.csv holds
\* it, that is, as it was before the mutation.
UpdateReadingCountFromFile(inp) ==
    /\ InSync
    /\ calls # <<>>
    /\ Head(calls) = "update_reading_count"
    /\ booksFile' = update_reading_count(reading_read_csv(readingFile), booksFile,
                                        book_title, inp)
    /\ answers' = IF Val(book_title) \in TitleValues(books_read_csv(booksFile))
                  THEN answers
                  ELSE Val(inp)
    /\ calls' = Tail(calls)
    /\ steps' = Append(steps, "update_reading_count")
    /\ pc' = "Counted"
    /\ UNCHANGED <<isfile, readingFile, session, reading_db, update_mode, book_title,
                   index, err, sessions, booksAtStart>>

UpdateReadingCount(inp) ==
    /\ InSync
    /\ calls # <<>>
    /\ Head(calls) = "update_reading_count"
    /\ booksFile' = update_reading_count(reading_db, booksFile, book_title, inp)
    /\ answers' = IF Val(book_title) \in TitleValues(books_read_csv(booksFile))
                  THEN answers
                  ELSE Val(inp)
    /\ calls' = Tail(calls)
    /\ steps' = Append(steps, "update_reading_count")
    /\ pc' = "Counted"
    /\ UNCHANGED <<isfile, readingFile, session, reading_db, update_mode, book_title,
                   index, err, sessions, booksAtStart>>

\* UpdateBookRating working on books.csv as it was when the session started
\* instead of loading it again.
UpdateBookRatingStale(inp) ==
    /\ InSync
    /\ calls # <<>>
    /\ Head(calls) = "update_book_rating"
    /\ booksFile' = update_book_rating(reading_db, booksAtStart, book_title, inp)
    /\ answers' = IF Val(book_title) \in TitleValues(books_read_csv(booksFile))
                  THEN answers
                  ELSE Val(inp)
    /\ calls' = Tail(calls)
    /\ steps' = Append(steps, "update_book_rating")
    /\ pc' = "Rated"
    /\ UNCHANGED <<isfile, readingFile, session, reading_db, update_mode, book_title,
                   index, err, sessions, booksAtStart>>

UpdateBookRating(inp) ==
    /\ InSync
    /\ calls # <<>>
    /\ Head(calls) = "update_book_rating"
    /\ booksFile' = update_book_rating(reading_db, booksFile, book_title, inp)
    /\ answers' = IF Val(book_title) \in TitleValues(books_read_csv(booksFile))
                  THEN answers
                  ELSE Val(inp)
    /\ calls' = Tail(calls)
    /\ steps' = Append(steps, "update_book_rating")
    /\ pc' = "Rated"
    /\ UNCHANGED <<isfile, readingFile, session, reading_db, update_mode, book_title,
                   index, err, sessions, booksAtStart>>

\* Line 536
SortReading ==
    /\ InSync
    /\ calls = <<>>
    /\ reading_db' = sort_reading(reading_db)
    /\ steps' = Append(steps, "sort")
    /\ pc' = "Sorted"
    /\ UNCHANGED <<isfile, booksFile, readingFile, session, update_mode, book_title,
                   calls, index, answers, err, sessions, booksAtStart>>

\* Line 538: the session ends and its DataFrame is gone.
PersistReading ==
    /\ pc = "Sorted"
    /\ readingFile' = reading_to_csv(reading_db)
    /\ steps' = Append(steps, "persist")
    /\ pc' = "Persisted"
    /\ reading_db' = <<>>
    /\ update_mode' = 0
    /\ book_title' = ""
    /\ index' = NaN
    /\ answers' = NaN
    /\ booksAtStart' = <<>>
    /\ UNCHANGED <<isfile, booksFile, session, calls, err, sessions>>

\* The process exits in the middle of a reading session (it is killed at a
\* prompt, or a read or a write of a file fails): nothing more is written.
Stop ==
    /\ session = "reading"
    /\ ~AtRest
    /\ pc' = "Aborted"
    /\ err' = "exit"
    /\ reading_db' = <<>>
    /\ update_mode' = 0
    /\ book_title' = ""
    /\ calls' = <<>>
    /\ index' = NaN
    /\ answers' = NaN
    /\ UNCHANGED <<isfile, booksFile, readingFile, session, steps, sessions, booksAtStart>>

-----------------------------------------------------------------------------
(* Specifications *)

\* The row labels a user may type: the labels of the rows and the first
\* label past the end.
Positions == 0..Len(reading_db)

\* A session of update_book_db, by the branch it takes, while fewer than limit
\* sessions have been started.
BookUpdates(limit) ==
    \/ \E t \in Titles, inp \in BookInputs :
          sessions < limit /\ AddBook(t, inp)
    \/ \E t \in Titles, k \in 1..Len(book_prop_dict) :
          \E v \in BookNewValues(book_prop_dict[k]) :
             sessions < limit /\ AddExistingBookEdit(t, book_prop_dict[k], v)
    \/ \E t \in Titles, inp \in BookInputs :
          sessions < limit /\ AddExistingBookOverwrite(t, inp)
    \/ \E t \in Titles, k \in 1..Len(book_prop_dict) :
          \E v \in BookNewValues(book_prop_dict[k]) :
             sessions < limit /\ EditBook(t, book_prop_dict[k], v)
    \/ \E t \in Titles : sessions < limit /\ RemoveBook(t)

BookSessions == BookUpdates(MaxSessions)

ReadingSessions ==
    \/ \E m \in 1..3 : SelectMode(m)
    \/ \E t \in Titles : PromptTitle(t)
    \/ \E e \in EntryInputs : AddEntry(e.start, e.finish, e.rating)
    \/ \E i \in Positions, k \in 1..Len(reading_prop_dict) :
          \E v \in ReadingNewValues(reading_prop_dict[k]) :
             SwitchToEdit(i, reading_prop_dict[k], v)
    \/ \E i \in Positions, k \in 1..Len(reading_prop_dict) :
          \E v \in ReadingNewValues(reading_prop_dict[k]) :
             EditEntry(i, reading_prop_dict[k], v)
    \/ \E i \in Positions : RemoveEntry(i)
    \/ \E inp \in PromptedInputs(book_title) : UpdateReadingCount(inp)
    \/ \E inp \in PromptedInputs(book_title) : UpdateBookRating(inp)
    \/ SortReading
    \/ PersistReading

\* Book sessions and reading sessions in any order, each run to its end or
\* to the exception it raises.
Next == BookSessions \/ ReadingSessions

Spec == Init /\ [][Next]_vars

\* Book sessions alone, from the two empty tables.
CatalogNext == BookUpdates(MaxBookSessions)

CatalogSpec == Init /\ [][CatalogNext]_vars

\* Runs of create_databases on a data directory, with and without the force
\* flag.
DirNext == \E f \in BOOLEAN : CreateDatabases(f)

DirSpec == DirInit /\ [][DirNext]_vars

\* Reading sessions alone, from the two empty tables.
ReadingNext == ReadingSessions

ReadingSpec == Init /\ [][ReadingNext]_vars

\* Reading sessions that the process may leave at any point.
ExitNext == ReadingSessions \/ Stop

ExitSpec == Init /\ [][ExitNext]_vars

-----------------------------------------------------------------------------
(* The two tables as a session loads them *)

Catalog == books_read_csv(booksFile)

ReadingLog == reading_read_csv(readingFile)

\* The rows of a catalog with a title.
BooksOf(db, title) == {i \in 1..Len(db) : db[i].Title = Val(title)}

-----------------------------------------------------------------------------
(* Claims *)

\* Number of rows of a reading table with the title and a defined Finish.
FinishedReadings(log, title) ==
    Cardinality({i \in 1..Len(log) :
                    log[i].Title = Val(title) /\ ~isnull(log[i].Finish)})

\* C1: after any sequence of reading sessions, each run to its last write,
\* the Times Read of every title equals the number of rows of the reading log
\* with that title and a defined Finish (a title with such a row has a
\* catalog record).
C1_TimesReadEqualsFinishedCount ==
    (session = "reading" /\ pc = "Persisted") =>
        \A t \in Titles :
            /\ FinishedReadings(ReadingLog, t) > 0 => BooksOf(Catalog, t) # {}
            /\ \A i \in BooksOf(Catalog, t) :
                  Catalog[i].TimesRead = Val(FinishedReadings(ReadingLog, t))

\* The ratings of the rows of the title, as a set of row numbers, and their
\* total.
RatingsOf(log, title) ==
    {i \in 1..Len(log) : log[i].Title = Val(title) /\ ~isnull(log[i].Rating)}

RECURSIVE TotalRating(_, _)
TotalRating(log, rows) ==
    IF rows = {} THEN 0
    ELSE LET i == CHOOSE k \in rows : TRUE
         IN  log[i].Rating[1] + TotalRating(log, rows \ {i})

\* r tenths is the mean total / n rounded to one decimal place: it is within
\* half a tenth of the mean.
IsMeanToOneDecimal(r, total, n) ==
    LET d == (10 * total) - (r * n)
    IN  2 * d <= n /\ 2 * (0 - d) <= n

C2_RemovedLastWitness ==
    /\ session = "reading"
    /\ pc = "Rated"
    /\ update_mode = 3
    /\ Val(book_title) \notin TitleValues(reading_db)
    /\ \E i \in 1..Len(booksAtStart) :
          /\ booksAtStart[i].Title = book_title
          /\ ~isnull(booksAtStart[i].Rating)

\* C3: at the end of every session, the Title of every row of the reading log
\* is the Title of some catalog record.
C3_EveryReadingTitleInCatalog ==
    pc = "Persisted" =>
        \A i \in 1..Len(ReadingLog) : ReadingLog[i].Title \in TitleValues(Catalog)

\* C4: no two catalog records share a Title.
C4_TitleIsUniqueKey ==
    \A i, j \in 1..Len(Catalog) : Catalog[i].Title = Catalog[j].Title => i = j

\* The session's title had no catalog record when the session started and
\* update_reading_count has run.
StubCreated ==
    /\ session = "reading"
    /\ pc \in {"Counted", "Rated", "Sorted"}
    /\ BooksOf(books_read_csv(booksAtStart), book_title) = {}

\* C5 as stated: the record created for a title that is absent from the
\* catalog has that Title and every other non-derived field undefined.
C5_StubFieldsUndefined ==
    StubCreated =>
        /\ BooksOf(Catalog, book_title) # {}
        /\ \A i \in BooksOf(Catalog, book_title) :
              /\ isnull(Catalog[i].Author)
              /\ isnull(Catalog[i].AuthorFN)
              /\ isnull(Catalog[i].AuthorMN)
              /\ isnull(Catalog[i].AuthorLN)
              /\ isnull(Catalog[i].Length)
              /\ isnull(Catalog[i].Genre)

\* C5 as amended: the record created for a title that is absent from the
\* catalog is the only record of that title and is added after the records the
\* catalog held; its name parts, Length and Genre are the answers typed at the
\* prompts of add_new_book (an empty answer reads back as undefined), its
\* Author is the name parts joined by single spaces and so is never undefined,
\* its Times Read is the count, and its Rating is the typed answer until
\* update_book_rating replaces it by the mean.
C5_StubHoldsPromptAnswers ==
    StubCreated =>
        /\ ~isnull(answers)
        /\ Len(Catalog) = Len(booksAtStart) + 1
        /\ SubSeq(booksFile, 1, Len(booksAtStart)) = booksAtStart
        /\ BooksOf(Catalog, book_title) = {Len(Catalog)}
        /\ LET r == Catalog[Len(Catalog)]
               a == answers[1]
           IN  /\ r.AuthorFN = Cell(a.fn)
               /\ r.AuthorMN = Cell(a.mn)
               /\ r.AuthorLN = Cell(a.ln)
               /\ r.Length = a.length
               /\ r.Genre = Cell(a.genre)
               /\ ~isnull(r.Author)
               /\ r.Author[1] = (IF a.mn = ""
                                 THEN a.fn \o " " \o a.ln
                                 ELSE a.fn \o " " \o a.mn \o " " \o a.ln)
               /\ r.TimesRead = Val(FinishedReadings(reading_db, book_title))
               /\ pc = "Counted" => r.Rating = a.rating

\* C5 witness: a record was created from non-empty answers and
\* update_reading_count has set its Times Read.
C5_Witness ==
    /\ StubCreated
    /\ pc = "Counted"
    /\ ~isnull(answers)
    /\ answers[1].ln # ""
    /\ FinishedReadings(reading_db, book_title) > 0

\* An edit step (lines 515 and 528) whose row label is no label of the
\* reading database.
EditOutOfRange ==
    /\ pc = "TitleResolved"
    /\ update_mode \in {1, 2}
    /\ ~isnull(index')
    /\ index'[1] \notin Labels(reading_db)

\* C6: an edit with a position that names no row fails with an error and
\* leaves the reading log as it was: the session ends there with reading.csv
\* unchanged.
C6_EditOutOfRangeFails ==
    [][EditOutOfRange =>
          /\ pc' = "Aborted"
          /\ err' # ""
          /\ readingFile' = readingFile]_vars

\* A remove step (line 532) whose row label is no label of the reading
\* database.
RemoveOutOfRange ==
    /\ pc = "TitleResolved"
    /\ update_mode = 3
    /\ ~isnull(index')
    /\ index'[1] \notin Labels(reading_db)

\* C7: a remove with a position that names no row ends the session with an
\* error, and neither reading.csv nor books.csv is changed: the step writes
\* nothing, and a session that ended so has written nothing since it started.
C7_RemoveOutOfRangeFails ==
    /\ [][RemoveOutOfRange =>
             /\ pc' = "Aborted"
             /\ err' = "KeyError"
             /\ reading_db' = <<>>
             /\ readingFile' = readingFile
             /\ booksFile' = booksFile]_vars
    /\ []((pc = "Aborted" /\ err = "KeyError") => booksFile = booksAtStart)

\* C7 witness: a remove session ended with the error for a label past the last
\* row of a reading log that has rows.
C7_Witness ==
    /\ pc = "Aborted"
    /\ err = "KeyError"
    /\ update_mode = 3
    /\ readingFile # <<>>
    /\ ~isnull(index)
    /\ index[1] \notin Labels(ReadingLog)

\* C8: a reading session that the process left before it wrote reading.csv has
\* not changed books.csv.
C8_ExitLeavesBooksUnchanged ==
    (session = "reading" /\ pc = "Aborted" /\ err = "exit") =>
        booksFile = booksAtStart

\* The steps of a reading session that runs to its end.
ReadingSteps ==
    <<"mode", "title", "mutate", "update_reading_count", "update_book_rating",
      "sort", "persist">>

\* s is the beginning of t.
IsPrefix(s, t) == Len(s) <= Len(t) /\ SubSeq(t, 1, Len(s)) = s

\* C9: a reading session goes through its steps in the order mode, title,
\* mutation, update_reading_count, update_book_rating, sort, persist and skips
\* none; a session is persisted only after all of them, and after the persist
\* step the only thing that happens is the start of another session, which
\* leaves both files as they are.
C9_StepsInOrder ==
    /\ [](session = "reading" =>
             /\ IsPrefix(steps, ReadingSteps)
             /\ pc = "Persisted" => steps = ReadingSteps
             /\ pc = "Sorted" => Len(steps) = Len(ReadingSteps) - 1)
    /\ [][(session = "reading" /\ pc = "Persisted") =>
             /\ sessions' = sessions + 1
             /\ booksFile' = booksFile
             /\ readingFile' = readingFile]_vars

\* C9 witness: a second reading session has been persisted after all its
\* steps.
C9_Witness ==
    /\ session = "reading"
    /\ pc = "Persisted"
    /\ steps = ReadingSteps
    /\ sessions = 2
    /\ readingFile # <<>>

\* The Reading Time of a row agrees with its Start and Finish.
ReadingTimeConsistent(row) ==
    /\ isnull(row.ReadingTime) <=> (isnull(row.Start) \/ isnull(row.Finish))
    /\ (~isnull(row.Start) /\ ~isnull(row.Finish)) =>
          row.ReadingTime = Val((row.Finish[1] - row.Start[1]) + 1)

\* C10: in reading.csv and in the DataFrame of a running session, the Reading
\* Time of every row is (Finish - Start) + 1 when both dates are defined and
\* is undefined exactly when one of them is.
C10_ReadingTimeConsistent ==
    /\ \A i \in 1..Len(ReadingLog) : ReadingTimeConsistent(ReadingLog[i])
    /\ \A i \in 1..Len(reading_db) : ReadingTimeConsistent(reading_db[i])

\* C10 witness: an edit has just changed the Reading Time of a row to a
\* defined value.
C10_Witness ==
    /\ session = "reading"
    /\ pc = "Mutated"
    /\ update_mode = 2
    /\ ~isnull(index)
    /\ index[1] \in Labels(ReadingLog)
    /\ ~isnull(reading_db[index[1] + 1].ReadingTime)
    /\ reading_db[index[1] + 1].ReadingTime # ReadingLog[index[1] + 1].ReadingTime

\* The Author of a record is its name parts joined by single spaces, the
\* middle name left out when it is empty or missing.
AuthorConsistent(r) ==
    Text(r.Author) =
        (IF Text(r.AuthorMN) = ""
         THEN Text(r.AuthorFN) \o " " \o Text(r.AuthorLN)
         ELSE Text(r.AuthorFN) \o " " \o Text(r.AuthorMN) \o " " \o Text(r.AuthorLN))

\* C11: in every state of the catalog that book sessions reach, the Author of
\* every record is "First Last" when its middle name is empty or missing and
\* "First Middle Last" otherwise, whichever field the last edit changed.
C11_AuthorConsistent ==
    \A i \in 1..Len(Catalog) : AuthorConsistent(Catalog[i])

\* The Times Read of the one record of a title.
TimesReadOf(db, title) == db[CHOOSE i \in BooksOf(db, title) : TRUE].TimesRead

\* A step that is a whole book session run to its last write.
BookSessionStep ==
    /\ sessions' = sessions + 1
    /\ session' = "books"
    /\ pc' = "Persisted"

\* C12: a book session (add, add resolved as edit or as overwrite, edit,
\* remove) leaves the Times Read of every title that has its one record before
\* and after the session as it was.
C12_BookSessionKeepsTimesRead ==
    [][BookSessionStep =>
          \A t \in Titles :
             (Cardinality(BooksOf(Catalog, t)) = 1
                 /\ Cardinality(BooksOf(Catalog', t)) = 1)
             => TimesReadOf(Catalog', t) = TimesReadOf(Catalog, t)]_vars

\* x is no later than y in ascending order with the missing value last.
TextAscending(x, y) == isnull(y) \/ (~isnull(x) /\ Rank(x[1]) <= Rank(y[1]))

\* The records are in the order (Author LN, Title), ascending, a missing
\* Author LN after every last name.
CatalogOrdered(db) ==
    \A i, j \in 1..Len(db) :
        i < j =>
            IF db[i].AuthorLN = db[j].AuthorLN
            THEN TextAscending(db[i].Title, db[j].Title)
            ELSE TextAscending(db[i].AuthorLN, db[j].AuthorLN)

\* C13: the catalog a book session writes is in the order (Author LN, Title)
\* with the records that have no Author LN last, and sorting it again gives
\* the same sequence.
C13_CatalogSortedMissingLast ==
    (session = "books" /\ pc = "Persisted") =>
        /\ CatalogOrdered(Catalog)
        /\ sort_books(Catalog) = Catalog

\* x is no later than y in ascending order with the undefined date last.
DateAscending(x, y) == isnull(y) \/ (~isnull(x) /\ x[1] <= y[1])

\* The rows are in the order of Finish, ascending, an undefined Finish after
\* every defined one; rows of equal Finish are in the order of Start,
\* ascending, an undefined Start after every defined one.
ReadingOrdered(db) ==
    \A i, j \in 1..Len(db) :
        i < j =>
            IF db[i].Finish = db[j].Finish
            THEN DateAscending(db[i].Start, db[j].Start)
            ELSE DateAscending(db[i].Finish, db[j].Finish)

\* C14: the DataFrame a reading session has sorted, and reading.csv as every
\* session leaves it, is ordered by Finish ascending with the undefined
\* Finish last and, among equal Finish, by Start ascending with the undefined
\* Start last.
C14_ReadingSorted ==
    /\ (session = "reading" /\ pc = "Sorted") => ReadingOrdered(reading_db)
    /\ ReadingOrdered(ReadingLog)

\* C14 witness: the sort has moved an added entry before rows the log held;
\* the sorted rows hold an undefined Finish, and two rows of equal Finish and
\* different Start.
C14_Witness ==
    /\ session = "reading"
    /\ pc = "Sorted"
    /\ update_mode = 1
    /\ isnull(index)
    /\ SubSeq(reading_db, 1, Len(ReadingLog)) # ReadingLog
    /\ \E i \in 1..Len(reading_db) : isnull(reading_db[i].Finish)
    /\ \E i, j \in 1..Len(reading_db) :
          /\ reading_db[i].Finish = reading_db[j].Finish
          /\ ~isnull(reading_db[i].Finish)
          /\ reading_db[i].Start # reading_db[j].Start

\* A step that is a run of create_databases.
CreateStep == session' = "create" /\ sessions' = sessions + 1

\* C15: a run of create_databases without the force flag leaves a file that
\* exists with its content and creates a missing file empty; with the force
\* flag it leaves both files empty; either way both files exist afterwards,
\* and what happens to one file does not depend on the other.  A second run
\* without the flag changes nothing.
C15_CreateDatabases ==
    [][CreateStep =>
          /\ isfile'.books /\ isfile'.reading
          /\ steps'[1] = "init" =>
                /\ booksFile' = (IF isfile.books THEN booksFile ELSE <<>>)
                /\ readingFile' = (IF isfile.reading THEN readingFile ELSE <<>>)
                /\ session = "create" => (booksFile' = booksFile
                                             /\ readingFile' = readingFile)
          /\ steps'[1] = "init -f" => (booksFile' = <<>> /\ readingFile' = <<>>)]_vars

\* C15 witness: a run without the force flag has kept a books.csv that holds
\* a record and has created the missing reading.csv.
C15_Witness ==
    /\ session = "create"
    /\ steps = <<"init", "Book database already created.",
                 "Creating reading database...">>
    /\ booksFile # <<>>
    /\ readingFile = <<>>

\* C16: in every branch of a reading session, the Times Read that
\* update_reading_count writes is the count in the DataFrame as the mutation
\* left it, and the Rating that update_book_rating writes is the mean in that
\* same DataFrame, whatever reading.csv still holds from before the mutation.
C16_SyncFromMutatedLog ==
    (session = "reading" /\ pc \in {"Counted", "Rated", "Sorted"}) =>
        \A i \in BooksOf(Catalog, book_title) :
            /\ Catalog[i].TimesRead = Val(FinishedReadings(reading_db, book_title))
            /\ pc \in {"Rated", "Sorted"} =>
                  LET rows == RatingsOf(reading_db, book_title)
                  IN  IF rows = {}
                      THEN isnull(Catalog[i].Rating)
                      ELSE /\ ~isnull(Catalog[i].Rating)
                           /\ IsMeanToOneDecimal(Catalog[i].Rating[1],
                                                 TotalRating(reading_db, rows),
                                                 Cardinality(rows))

\* C16 witness: in the branch of line 515 (an add switched to an edit) the
\* two calls have run after an edit that changed the count of finished rows of
\* the title.
C16_Witness ==
    /\ session = "reading"
    /\ pc = "Rated"
    /\ update_mode = 1
    /\ ~isnull(index)
    /\ index[1] \in Labels(ReadingLog)
    /\ FinishedReadings(reading_db, book_title)
          # FinishedReadings(ReadingLog, book_title)

\* A step that edits or removes the row of a label the reading database has.
PositionedMutation ==
    /\ pc = "TitleResolved"
    /\ pc' = "Mutated"
    /\ ~isnull(index')
    /\ index'[1] \in Labels(reading_db)

\* C17: the row an edit or a remove session changes or removes is a row of
\* the title the session was given, the title that is then synchronized.
C17_PositionBelongsToTitle ==
    [][PositionedMutation =>
          reading_db[index'[1] + 1].Title = Val(book_title)]_vars

\* Both propagation calls have run for a title that had no catalog record
\* when the session started.
BothCallsForNewTitle ==
    /\ session = "reading"
    /\ pc \in {"Rated", "Sorted"}
    /\ BooksOf(books_read_csv(booksAtStart), book_title) = {}

\* The step of update_book_rating that follows update_reading_count.
RatingAfterCount == pc = "Counted" /\ pc' = "Rated"

\* C18: after update_reading_count and update_book_rating have run in
\* sequence for a title that was absent from the catalog, the catalog holds
\* exactly one record of the title, one record more than before, and that
\* record holds the Times Read that update_reading_count wrote; the step of
\* update_book_rating adds no record and changes no Times Read.
C18_OneStubCountKept ==
    /\ [](BothCallsForNewTitle =>
             /\ Cardinality(BooksOf(Catalog, book_title)) = 1
             /\ Len(Catalog) = Len(booksAtStart) + 1
             /\ TimesReadOf(Catalog, book_title)
                   = Val(FinishedReadings(reading_db, book_title)))
    /\ [][RatingAfterCount =>
             /\ Len(Catalog') = Len(Catalog)
             /\ \A i \in 1..Len(Catalog) :
                   Catalog'[i].TimesRead = Catalog[i].TimesRead]_vars

\* C18 witness: both calls have run for a new title with a finished and rated
\* row, next to a record the catalog already held.
C18_Witness ==
    /\ BothCallsForNewTitle
    /\ pc = "Rated"
    /\ booksAtStart # <<>>
    /\ FinishedReadings(reading_db, book_title) > 0
    /\ RatingsOf(reading_db, book_title) # {}

\* A step of update_reading_count or update_book_rating for a title that has
\* a catalog record.
SyncStepForKnownTitle ==
    /\ pc \in {"Mutated", "Counted"}
    /\ pc' \in {"Counted", "Rated"}
    /\ BooksOf(Catalog, book_title) # {}

\* C19: a propagation call for a title that has a catalog record adds and
\* removes no record, leaves every record of another title as it was, and
\* changes nothing but Times Read and Rating in the records of the title.
C19_SyncFrame ==
    [][SyncStepForKnownTitle =>
          /\ Len(Catalog') = Len(Catalog)
          /\ \A i \in 1..Len(Catalog) :
                IF Catalog[i].Title = Val(book_title)
                THEN Catalog'[i] = [Catalog[i] EXCEPT
                                       !.TimesRead = Catalog'[i].TimesRead,
                                       !.Rating = Catalog'[i].Rating]
                ELSE Catalog'[i] = Catalog[i]]_vars

\* C19 witness: both calls have run for a title that had a record when the
\* session started, the catalog holds a record of another title with a Times
\* Read of its own, and the calls have changed books.csv.
C19_Witness ==
    /\ session = "reading"
    /\ pc = "Rated"
    /\ BooksOf(books_read_csv(booksAtStart), book_title) # {}
    /\ booksFile # booksAtStart
    /\ \E i \in 1..Len(Catalog) :
          /\ Catalog[i].Title # Val(book_title)
          /\ ~isnull(Catalog[i].TimesRead)
          /\ Catalog[i].TimesRead # TimesReadOf(Catalog, book_title)

====
